---- MODULE Spec2Model ----
(***************************************************************************)
(* Job orchestration of the bawei V2 extension: the background script      *)
(* (handleV2StartJob, handleV2GetContext, handleV2ChannelUpdate,           *)
(* handleV2StopJob, handleV2Control) over the job data manager             *)
(* (storeJobData, cleanExpiredData, limitStoredJobs, markJobStopped).      *)
(*                                                                         *)
(* Conventions.  A JavaScript value that the code only tests for           *)
(* truthiness is modelled by its falsy representative: tab id 0 is "no     *)
(* tab id", stoppedAt 0 is "not stopped", stage "" is "no stage".          *)
(* chrome.storage.local is modelled by two maps, one per key prefix        *)
(* (jobStore for the bawei_v2_job_ keys, stateStore for the                *)
(* bawei_v2_state_ keys), and a key that is not stored is a key outside    *)
(* the DOMAIN of the map.                                                  *)
(* In Spec every handler runs from its first line to its response as one   *)
(* step (requests handled one after the other) and every tab is open;      *)
(* storage calls succeed.  In SpecRace the handlers of ChannelUpdate and    *)
(* RequestStop are suspended at their awaits and other handlers run in      *)
(* between.                                                                *)
(***************************************************************************)
EXTENDS Integers, Sequences, FiniteSets, TLC

VARIABLES
  now,                 \* Date.now(), in ms
  ticks,               \* how often the clock was advanced (bounds the run)
  jobStore,            \* chrome.storage.local, keys bawei_v2_job_ + jobId
  stateStore,          \* chrome.storage.local, keys bawei_v2_state_ + jobId
  tabIdToContext,      \* Map<tabId, {jobId, channelId}>
  jobIdToSourceTabId,  \* Map<jobId, tabId>
  jobStateCache,       \* Map<jobId, Record<ChannelId, ChannelRuntimeState>>
  nextJob,             \* number of job ids handed out by newJobId()
  nextTab,             \* number of tab ids handed out by chrome.tabs.create
  updates,             \* number of ChannelUpdate messages handled (bounds the run)
  last,                \* the request handled by the last step and what it answered/sent
  stopAcked,           \* jobIds for which RequestStop has answered {success: true}
  applied,             \* jobIds for which a ChannelUpdate was merged (not discarded)
  startedOk,           \* jobIds whose StartJob answered {success: true}
  closed,              \* tab ids of closed tabs: chrome.tabs.sendMessage to them rejects
  reporter,            \* <<jobId, channelId>> -> the tab spawned for, or that last reported, the channel
  inflight,            \* the handlers that are suspended at an await
  worker,              \* the content script of a channel in its tab
  client               \* the content script of the article page (the source tab)

vars == <<now, ticks, jobStore, stateStore, tabIdToContext, jobIdToSourceTabId,
          jobStateCache, nextJob, nextTab, updates, last, stopAcked, applied, startedOk,
          closed, reporter, inflight, worker, client>>

----------------------------------------------------------------------------
\* Bounds of the model

NumChannels == 2
MaxJobs == 1
MaxTicks == 1
MaxUpdates == 1
MaxHandlers == 2
MaxFlows == 2
MaxPolls == 1

----------------------------------------------------------------------------
\* Program constants

EXPIRY_TIME == 86400000
MAX_STORED_JOBS == 20

ChannelOrder ==
  <<"csdn", "tencent-cloud-dev", "cnblogs", "oschina", "woshipm",
    "mowen", "sspai", "baijiahao", "toutiao", "feishu-docs">>

\* the first NumChannels of the ten supported channels
ALL_CHANNELS == {ChannelOrder[i] : i \in 1..NumChannels}

\* ids: jobs found in storage at start-up are 1..MAX_STORED_JOBS, the n-th
\* job id made by newJobId() is JobBase + n
JobBase == 100
SourceTab == 1
StaleTab == 9
FirstWorkerTab == 10

----------------------------------------------------------------------------
\* Small helpers

\* currentJob: null, or the job of the context
NoJob == [jobId |-> 0, stoppedAt |-> 0]

IsJob(job) == job.jobId # 0

Remove(f, S) == [k \in DOMAIN f \ S |-> f[k]]

Put(f, k, v) == [x \in DOMAIN f \cup {k} |-> IF x = k THEN v ELSE f[x]]

Range(s) == {s[i] : i \in DOMAIN s}

EmptyMap == [x \in {} |-> 0]

\* {...prev, ...patch}: every field of the patch overwrites, the rest is kept
Spread(prev, patch) ==
  [f \in DOMAIN prev \cup DOMAIN patch |->
     IF f \in DOMAIN patch THEN patch[f] ELSE prev[f]]

----------------------------------------------------------------------------
\* background: nowState, buildInitialState

nowState(channelId, t) ==
  [channelId |-> channelId, status |-> "not_started", stage |-> "",
   userMessage |-> "", updatedAt |-> t, tabId |-> 0]

buildInitialStateAs(t) == [c \in {ChannelOrder[1]} |-> nowState(c, t)]

buildInitialState(t) == [c \in ALL_CHANNELS |-> nowState(c, t)]

----------------------------------------------------------------------------
\* article-data-manager

HasJob(js, jobId) == jobId \in DOMAIN js

\* getJobData(jobId)?.stoppedAt is truthy
JobStopped(js, jobId) == HasJob(js, jobId) /\ js[jobId].stoppedAt # 0

\* the job keys cleanExpiredData collects
ExpiredAs(js, t) ==
  {j \in DOMAIN js : js[j].createdAt # 0 /\ t - js[j].createdAt >= EXPIRY_TIME}

ExpiredIds(js, t) ==
  {j \in DOMAIN js : js[j].createdAt # 0 /\ t - js[j].createdAt > EXPIRY_TIME}

\* cleanExpiredData: removes the job key and the state key of every expired job
cleanExpiredData(st, t) ==
  [jobs |-> Remove(st.jobs, ExpiredIds(st.jobs, t)),
   states |-> Remove(st.states, ExpiredIds(st.jobs, t))]

Oldest(js) == {j \in DOMAIN js : \A k \in DOMAIN js : js[j].createdAt <= js[k].createdAt}

\* the tails jobs.slice(m) can be after the sort by createdAt descending; the
\* order of jobs with equal createdAt is the enumeration order of the storage,
\* which is not fixed by the code
RECURSIVE SliceTails(_, _)
SliceTails(js, m) ==
  IF m <= 0 THEN {{}}
  ELSE UNION {{{r} \cup R : R \in SliceTails(Remove(js, {r}), m - 1)} : r \in Oldest(js)}

LimitAs(js) ==
  IF Cardinality(DOMAIN js) < MAX_STORED_JOBS THEN {{}}
  ELSE SliceTails(js, Cardinality(DOMAIN js) - MAX_STORED_JOBS + 1)

\* limitStoredJobs: the sets of job ids it may remove
LimitRemovals(js) ==
  IF Cardinality(DOMAIN js) <= MAX_STORED_JOBS THEN {{}}
  ELSE SliceTails(js, Cardinality(DOMAIN js) - MAX_STORED_JOBS)

limitStoredJobs(st) ==
  {[jobs |-> Remove(st.jobs, R), states |-> Remove(st.states, R)] :
     R \in LimitRemovals(st.jobs)}

\* storeJobData: set, cleanExpiredData, limitStoredJobs
storeJobData(st, job, t) ==
  limitStoredJobs(
    cleanExpiredData([jobs |-> Put(st.jobs, job.jobId, job), states |-> st.states], t))

\* storeJobState
storeJobState(ss, jobId, state) == Put(ss, jobId, state)

markJobStoppedAs(st, jobId, t) ==
  storeJobData(st, [st.jobs[jobId] EXCEPT !.stoppedAt = t, !.createdAt = t], t)

\* markJobStopped (the job is stored when it is called)
markJobStopped(st, jobId, t) ==
  storeJobData(st, [st.jobs[jobId] EXCEPT !.stoppedAt = t], t)

Storage == [jobs |-> jobStore, states |-> stateStore]

----------------------------------------------------------------------------
\* Inputs

ValidArticle == [title |-> "T", contentHtml |-> "<p>x</p>", sourceUrl |-> "https://x"]

\* message.article is absent
NoArticle == [title |-> "", contentHtml |-> "", sourceUrl |-> ""]

Articles ==
  {ValidArticle, NoArticle,
   [ValidArticle EXCEPT !.title = ""],
   [ValidArticle EXCEPT !.contentHtml = ""],
   [ValidArticle EXCEPT !.sourceUrl = ""]}

\* message.channels: absent or empty (every channel is run), an unknown channel
\* (none is run), one channel
ChannelInputs == {<<>>, <<"bogus">>, <<ChannelOrder[1]>>}

\* message.patch: a failure report, and a report that also names a tab id
Patches ==
  {[status |-> "failed", userMessage |-> "failed"],
   [status |-> "waiting_user", stage |-> "waitingUser", tabId |-> StaleTab]}

\* what chrome.tabs.create does for one channel: a tab with an id, a tab
\* without id, a rejection
SpawnOutcomes == {"ok", "noid", "throw"}

\* the outcomes of the spawn loop over the channels run: at most one channel
\* does not get a tab with an id
OutcomeInputs(run) ==
  {o \in [Range(run) -> SpawnOutcomes] : Cardinality({c \in Range(run) : o[c] # "ok"}) <= 1}

\* job ids a request can name: id 1 (the oldest job of the earlier sessions, or
\* an id that was never made when the storage started empty) and the ids made so far
JobIdInputs == {1} \cup {JobBase + n : n \in 1..nextJob}

\* sender.tab?.id of a message from a worker: none, or the first tab StartJob made
SenderTabs == {0} \cup {tab \in {FirstWorkerTab + 1} : nextTab > 0}

\* A request that is only answered (GetContext, Retry, Continue, a StartJob
\* rejected for its article, a RequestStop for a job that is not stored) changes
\* no variable but last, so the steps that can follow it are the steps that can
\* follow the state it was handled in; the model takes them from that state and
\* does not continue from the state that records the answer.
Fresh ==
  /\ last.op \notin {"GetContext", "V2_REQUEST_RETRY", "V2_REQUEST_CONTINUE"}
  /\ ~(last.op = "StartJob" /\ last.jobId = 0)
  /\ ~(last.op = "StopJob" /\ ~last.ok)

\* last: op, jobId, channelId, article are the request; ok and respJobId the
\* response; sent the messages sent to worker tabs; bcast the broadcast sent to
\* the source tab; spawned the tab ids chrome.tabs.create returned and noTab the
\* channels for which it returned none; ctx the context a GetContext answered
\* and from the tab id of its sender (of a GetContext and of a ChannelUpdate);
\* patch the patch of a ChannelUpdate
NoLast ==
  [op |-> "none", jobId |-> 0, channelId |-> "", article |-> NoArticle,
   ok |-> FALSE, respJobId |-> 0,
   sent |-> {}, bcast |-> {}, spawned |-> {}, noTab |-> {}, ctx |-> {}, from |-> 0,
   patch |-> [status |-> ""]]

----------------------------------------------------------------------------
\* The background script has just been loaded and the storage holds n jobs of
\* earlier sessions, all unexpired, made at the times 1..n

StoredJob(i) ==
  [jobId |-> i, createdAt |-> i, action |-> "publish", article |-> ValidArticle,
   channels |-> SubSeq(ChannelOrder, 1, NumChannels), sourceTabId |-> SourceTab,
   stoppedAt |-> 0]

StoredState(i) ==
  [c \in ALL_CHANNELS |->
     [channelId |-> c, status |-> "success", stage |-> "done",
      userMessage |-> "", updatedAt |-> i, tabId |-> StaleTab]]

\* the content script of a channel has just been loaded: currentJob is null,
\* stopRequested is false, currentStage is 'init', no bootstrap() is running
\* tab is the tab the script runs in (0: no page of the channel is loaded);
\* flows are the calls of bootstrap(); stopSent records that a stop message
\* reached the listener; left that the page was left (location.href)
WorkerInit ==
  [tab |-> 0, currentJob |-> NoJob, stopRequested |-> FALSE, currentStage |-> "init",
   flows |-> EmptyMap, stopSent |-> FALSE, left |-> FALSE]

\* the content script of the article page has just been loaded: currentJobId
\* and latestState are null, the flags are false, no request and no message is
\* on its way.  latestOf is the job whose broadcast latestState was taken from
\* and responded the job of the StartJob response handled since the last
\* start (0: none); requests are the requests sent and not yet handled by the
\* background script, inbox the messages sent to the tab and not yet received
ClientInit ==
  [currentJobId |-> 0, latestState |-> EmptyMap, latestOf |-> 0, responded |-> 0,
   isStartingJob |-> FALSE, isAwaitingFirstBroadcast |-> FALSE,
   isJobStopped |-> FALSE, isStoppingJob |-> FALSE,
   requests |-> {}, inbox |-> <<>>]

InitWith(n) ==
  /\ now = MAX_STORED_JOBS
  /\ ticks = 0
  /\ jobStore = [i \in 1..n |-> StoredJob(i)]
  /\ stateStore = [i \in 1..n |-> StoredState(i)]
  /\ tabIdToContext = EmptyMap
  /\ jobIdToSourceTabId = EmptyMap
  /\ jobStateCache = EmptyMap
  /\ nextJob = 0
  /\ nextTab = 0
  /\ updates = 0
  /\ last = NoLast
  /\ stopAcked = {}
  /\ applied = {}
  /\ startedOk = {}
  /\ closed = {}
  /\ reporter = EmptyMap
  /\ inflight = EmptyMap
  /\ worker = WorkerInit
  /\ client = ClientInit

----------------------------------------------------------------------------
\* background: broadcastJobState.  The message it sends to the source tab, if
\* any: none when the job has no source tab or no cached state.  channels is
\* job?.channels (<<>> when the job is not stored).  A rejection of
\* chrome.tabs.sendMessage is caught and logged: it changes nothing.
broadcastJobState(jobId, src, cache, js) ==
  IF jobId \in DOMAIN src /\ jobId \in DOMAIN cache
  THEN {[to |-> src[jobId], jobId |-> jobId,
         channels |-> IF HasJob(js, jobId) THEN js[jobId].channels ELSE <<>>,
         state |-> cache[jobId]]}
  ELSE {}

BroadcastThrowsAs(msgs, cl) == \E m \in msgs : m.to \in cl

\* whether broadcastJobState throws into the handler that awaits it: its
\* try/catch logs the rejection of chrome.tabs.sendMessage, so it never does
BroadcastThrows(msgs, cl) == FALSE

----------------------------------------------------------------------------
\* background: handleV2StartJob

MissingFieldsAs(article) == article.title = ""

\* !article?.title || !article?.contentHtml || !article?.sourceUrl
MissingFields(article) ==
  article.title = "" \/ article.contentHtml = "" \/ article.sourceUrl = ""

\* (channels non-empty ? channels : ALL_CHANNELS).filter(c => ALL_CHANNELS.includes(c))
channelsToRun(channels) ==
  SelectSeq(IF Len(channels) > 0 THEN channels ELSE SubSeq(ChannelOrder, 1, NumChannels),
            LAMBDA c : c \in ALL_CHANNELS)

\* the tab id chrome.tabs.create returns for the i-th channel of run: a fresh
\* id when the tab has one, 0 when it has none or the call rejected
TabOf(run, outcome, i) ==
  IF outcome[run[i]] = "ok"
  THEN FirstWorkerTab + nextTab + Cardinality({k \in 1..i : outcome[run[k]] = "ok"})
  ELSE 0

SpawnedEntryAs(entry, tab, t) ==
  [entry EXCEPT !.status = "running", !.stage = "openEntry", !.updatedAt = t]

\* {...initialState[channelId], status: 'running', stage: 'openEntry', updatedAt, tabId}
SpawnedEntry(entry, tab, t) ==
  [entry EXCEPT !.status = "running", !.stage = "openEntry", !.updatedAt = t,
                !.tabId = tab]

\* initialState after the spawn loop: the entry of a channel whose tab has an
\* id is replaced, every other entry is as buildInitialState made it
SpawnedState(initialState, run, outcome, t) ==
  [c \in DOMAIN initialState |->
     IF \E i \in 1..Len(run) : run[i] = c /\ TabOf(run, outcome, i) # 0
     THEN LET i == CHOOSE i \in 1..Len(run) : run[i] = c /\ TabOf(run, outcome, i) # 0
          IN  SpawnedEntry(initialState[c], TabOf(run, outcome, i), t)
     ELSE initialState[c]]

SpawnedContext(run, outcome, jobId) ==
  LET tabs == {TabOf(run, outcome, i) : i \in 1..Len(run)} \ {0}
  IN  [tab \in DOMAIN tabIdToContext \cup tabs |->
         IF tab \in tabs
         THEN [jobId |-> jobId,
               channelId |-> run[CHOOSE i \in 1..Len(run) : TabOf(run, outcome, i) = tab]]
         ELSE tabIdToContext[tab]]

\* the tab made for each channel of the job that got one
SpawnedReporter(run, outcome, jobId) ==
  LET got == {i \in 1..Len(run) : TabOf(run, outcome, i) # 0}
  IN  [k \in DOMAIN reporter \cup {<<jobId, run[i]>> : i \in got} |->
         IF \E i \in got : k = <<jobId, run[i]>>
         THEN TabOf(run, outcome, CHOOSE i \in got : k = <<jobId, run[i]>>)
         ELSE reporter[k]]

StartJobRejected(article) ==
  /\ Fresh
  /\ MissingFields(article)
  /\ last' = [NoLast EXCEPT !.op = "StartJob", !.ok = FALSE, !.article = article]
  /\ UNCHANGED <<now, ticks, jobStore, stateStore, tabIdToContext, jobIdToSourceTabId,
                 jobStateCache, nextJob, nextTab, updates, stopAcked, applied, startedOk,
                 closed, reporter, inflight>>

StartJobAccepted(article, channels, sourceTabId, outcome) ==
  LET jobId == JobBase + nextJob + 1
      run == channelsToRun(channels)
      job == [jobId |-> jobId, createdAt |-> now, action |-> "publish",
              article |-> article, channels |-> run, sourceTabId |-> sourceTabId,
              stoppedAt |-> 0]
      threw == \E i \in 1..Len(run) : outcome[run[i]] = "throw"
      initialState == buildInitialState(now)
      final == SpawnedState(initialState, run, outcome, now)
      src == IF sourceTabId # 0 THEN Put(jobIdToSourceTabId, jobId, sourceTabId)
             ELSE jobIdToSourceTabId
  IN
  /\ Fresh
  /\ ~MissingFields(article)
  /\ nextJob < MaxJobs
  /\ \E st \in storeJobData(Storage, job, now) :
       /\ jobStore' = st.jobs
       \* storeJobState(jobId, initialState) before the spawn loop, and again
       \* after it unless a chrome.tabs.create call rejected
       /\ stateStore' = storeJobState(st.states, jobId,
                                      IF threw THEN initialState ELSE final)
       /\ LET bc == IF threw THEN {}
                    ELSE broadcastJobState(jobId, src, Put(jobStateCache, jobId, final),
                                           st.jobs)
              ok == ~threw /\ ~BroadcastThrows(bc, closed)
          IN  last' = [NoLast EXCEPT
                         !.op = "StartJob", !.jobId = jobId, !.ok = ok,
                         !.respJobId = IF ok THEN jobId ELSE 0,
                         !.article = article,
                         !.spawned = {TabOf(run, outcome, i) : i \in 1..Len(run)} \ {0},
                         !.noTab = {c \in Range(run) : outcome[c] # "ok"},
                         !.bcast = bc]
  \* the cache holds the initialState object itself, which the spawn loop mutates
  /\ jobStateCache' = Put(jobStateCache, jobId, final)
  /\ jobIdToSourceTabId' = src
  /\ tabIdToContext' = SpawnedContext(run, outcome, jobId)
  /\ nextJob' = nextJob + 1
  /\ nextTab' = nextTab + Cardinality({i \in 1..Len(run) : outcome[run[i]] = "ok"})
  /\ startedOk' = IF threw THEN startedOk ELSE startedOk \cup {jobId}
  /\ reporter' = SpawnedReporter(run, outcome, jobId)
  /\ UNCHANGED <<now, ticks, updates, stopAcked, applied, closed, inflight>>

StartJob ==
  \E article \in Articles :
    \/ StartJobRejected(article)
    \/ \E channels \in ChannelInputs :
         \E outcome \in OutcomeInputs(channelsToRun(channels)) :
           StartJobAccepted(article, channels, SourceTab, outcome)

----------------------------------------------------------------------------
\* background: handleV2GetContext

ContextOfAs(reg, js, tabId) ==
  IF tabId # 0 /\ tabId \in DOMAIN reg /\ HasJob(js, reg[tabId].jobId)
     /\ ~JobStopped(js, reg[tabId].jobId)
  THEN {[tabId |-> tabId, job |-> js[reg[tabId].jobId], channelId |-> reg[tabId].channelId]}
  ELSE {}

\* the context answered to the tab: none when the sender has no tab id ('No
\* sender tab id'), the tab is not in tabIdToContext ('No context for this
\* tab') or getJobData finds no job ('Job not found')
ContextOf(reg, js, tabId) ==
  IF tabId # 0 /\ tabId \in DOMAIN reg /\ HasJob(js, reg[tabId].jobId)
  THEN {[tabId |-> tabId, job |-> js[reg[tabId].jobId], channelId |-> reg[tabId].channelId]}
  ELSE {}

GetContext ==
  \E tabId \in SenderTabs :
    LET known == tabId # 0 /\ tabId \in DOMAIN tabIdToContext
        ctx == ContextOf(tabIdToContext, jobStore, tabId)
    IN
    /\ Fresh
    /\ last' = [NoLast EXCEPT
                  !.op = "GetContext", !.from = tabId, !.ok = (ctx # {}),
                  !.jobId = IF known THEN tabIdToContext[tabId].jobId ELSE 0,
                  !.ctx = ctx]
    /\ UNCHANGED <<now, ticks, jobStore, stateStore, tabIdToContext, jobIdToSourceTabId,
                   jobStateCache, nextJob, nextTab, updates, stopAcked, applied, startedOk,
                   closed, reporter, inflight>>

----------------------------------------------------------------------------
\* background: handleV2ChannelUpdate

CurrentStateAs(cache, ss, jobId, t) == buildInitialState(t)

\* jobStateCache.get(jobId) || (await getJobState(jobId)) || buildInitialState()
CurrentState(cache, ss, jobId, t) ==
  IF jobId \in DOMAIN cache THEN cache[jobId]
  ELSE IF jobId \in DOMAIN ss THEN ss[jobId]
  ELSE buildInitialState(t)

MergeAs(prev, patch, channelId, senderTab, t) ==
  [Spread(prev, patch) EXCEPT
     !.channelId = channelId, !.updatedAt = t, !.tabId = senderTab]

MergePatchTabAs(prev, patch, channelId, senderTab, t) ==
  [Spread(prev, patch) EXCEPT !.channelId = channelId, !.updatedAt = t]

\* {...prev, ...patch, channelId, updatedAt: Date.now(), tabId: sender.tab?.id || prev.tabId}
Merge(prev, patch, channelId, senderTab, t) ==
  [Spread(prev, patch) EXCEPT
     !.channelId = channelId, !.updatedAt = t,
     !.tabId = IF senderTab # 0 THEN senderTab ELSE prev.tabId]

DiscardAs(js, jobId) == FALSE

\* job?.stoppedAt: the update is acknowledged and dropped
Discard(js, jobId) == JobStopped(js, jobId)

ChannelUpdate ==
  \E jobId \in JobIdInputs, channelId \in ALL_CHANNELS, patch \in Patches,
     senderTab \in SenderTabs :
    /\ Fresh
    /\ updates < MaxUpdates
    /\ updates' = updates + 1
    /\ IF Discard(jobStore, jobId)
       THEN /\ last' = [NoLast EXCEPT !.op = "ChannelUpdate", !.jobId = jobId,
                                      !.channelId = channelId, !.ok = TRUE,
                                      !.patch = patch, !.from = senderTab]
            /\ UNCHANGED <<jobStateCache, stateStore, applied, reporter>>
       ELSE LET current == CurrentState(jobStateCache, stateStore, jobId, now)
                prev == IF channelId \in DOMAIN current THEN current[channelId]
                        ELSE nowState(channelId, now)
                next == Merge(prev, patch, channelId, senderTab, now)
                merged == Put(current, channelId, next)
            IN
            /\ jobStateCache' = Put(jobStateCache, jobId, merged)
            /\ stateStore' = storeJobState(stateStore, jobId, merged)
            /\ applied' = applied \cup {jobId}
            /\ reporter' = IF senderTab # 0
                           THEN Put(reporter, <<jobId, channelId>>, senderTab)
                           ELSE reporter
            /\ LET bc == broadcastJobState(jobId, jobIdToSourceTabId,
                                           Put(jobStateCache, jobId, merged), jobStore)
               IN  last' = [NoLast EXCEPT
                              !.op = "ChannelUpdate", !.jobId = jobId,
                              !.channelId = channelId,
                              !.ok = ~BroadcastThrows(bc, closed),
                              !.bcast = bc, !.patch = patch, !.from = senderTab]
    /\ UNCHANGED <<now, ticks, jobStore, tabIdToContext, jobIdToSourceTabId,
                   nextJob, nextTab, stopAcked, startedOk, closed, inflight>>

----------------------------------------------------------------------------
\* background: handleV2StopJob

\* jobStateCache.get(jobId) || (await getJobState(jobId)), then state?.[channelId]?.tabId
KnownTab(cache, ss, jobId, channelId) ==
  IF jobId \in DOMAIN cache
  THEN IF channelId \in DOMAIN cache[jobId] THEN cache[jobId][channelId].tabId ELSE 0
  ELSE IF jobId \in DOMAIN ss
  THEN IF channelId \in DOMAIN ss[jobId] THEN ss[jobId][channelId].tabId ELSE 0
  ELSE 0

\* the stop messages sent: one per channel of ALL_CHANNELS with a known tab
\* (a rejection of chrome.tabs.sendMessage is caught per channel and logged)
StopSignals(cache, ss, jobId) ==
  {[tab |-> KnownTab(cache, ss, jobId, c), type |-> "V2_REQUEST_STOP", jobId |-> jobId,
    channelId |-> c] :
     c \in {c \in ALL_CHANNELS : KnownTab(cache, ss, jobId, c) # 0}}

StopJob ==
  \E jobId \in JobIdInputs :
    /\ Fresh
    /\ IF ~HasJob(jobStore, jobId)
       THEN \* Job not found
            /\ last' = [NoLast EXCEPT !.op = "StopJob", !.jobId = jobId, !.ok = FALSE]
            /\ UNCHANGED <<jobStore, stateStore, stopAcked>>
       ELSE IF jobStore[jobId].stoppedAt # 0
       THEN \* already stopped
            /\ last' = [NoLast EXCEPT !.op = "StopJob", !.jobId = jobId, !.ok = TRUE]
            /\ stopAcked' = stopAcked \cup {jobId}
            /\ UNCHANGED <<jobStore, stateStore>>
       ELSE \E st \in markJobStopped(Storage, jobId, now) :
              /\ jobStore' = st.jobs
              /\ stateStore' = st.states
              /\ stopAcked' = stopAcked \cup {jobId}
              /\ last' = [NoLast EXCEPT
                            !.op = "StopJob", !.jobId = jobId, !.ok = TRUE,
                            !.sent = StopSignals(jobStateCache, st.states, jobId)]
    /\ UNCHANGED <<now, ticks, tabIdToContext, jobIdToSourceTabId, jobStateCache,
                   nextJob, nextTab, updates, applied, startedOk, closed, reporter, inflight>>

----------------------------------------------------------------------------
\* background: handleV2Control (RequestRetry, RequestContinue)

ControlTargetAs(cache, ss, js, jobId, channelId) ==
  IF JobStopped(js, jobId) THEN 0
  ELSE IF KnownTab(cache, ss, jobId, channelId) = 0 THEN SourceTab
  ELSE KnownTab(cache, ss, jobId, channelId)

\* the tab the request is forwarded to; 0 when the handler answers with an error
\* before sending (job stopped, or no tab known for the channel)
ControlTarget(cache, ss, js, jobId, channelId) ==
  IF JobStopped(js, jobId) THEN 0
  ELSE KnownTab(cache, ss, jobId, channelId)

Control ==
  \E type \in {"V2_REQUEST_RETRY", "V2_REQUEST_CONTINUE"},
     jobId \in JobIdInputs, channelId \in ALL_CHANNELS :
    LET tab == ControlTarget(jobStateCache, stateStore, jobStore, jobId, channelId)
    IN
    /\ Fresh
    /\ last' = [NoLast EXCEPT
                  !.op = type, !.jobId = jobId, !.channelId = channelId,
                  \* a rejection of chrome.tabs.sendMessage is answered as an error
                  !.ok = (tab # 0 /\ tab \notin closed),
                  !.sent = IF tab # 0
                           THEN {[tab |-> tab, type |-> type, jobId |-> jobId,
                                  channelId |-> channelId]}
                           ELSE {}]
    /\ UNCHANGED <<now, ticks, jobStore, stateStore, tabIdToContext, jobIdToSourceTabId,
                   jobStateCache, nextJob, nextTab, updates, stopAcked, applied, startedOk,
                   closed, reporter, inflight>>

----------------------------------------------------------------------------
\* background: chrome.runtime.onStartup / onInstalled.  A freshly loaded
\* background script (its three maps are new and empty) runs cleanExpiredData.

OnStartup ==
  LET st == cleanExpiredData(Storage, now)
  IN
  /\ Fresh
  /\ \A h \in DOMAIN inflight : inflight[h].pc = "done"
  /\ jobStore' = st.jobs
  /\ stateStore' = st.states
  /\ tabIdToContext' = EmptyMap
  /\ jobIdToSourceTabId' = EmptyMap
  /\ jobStateCache' = EmptyMap
  /\ last' = [NoLast EXCEPT !.op = "OnStartup"]
  /\ UNCHANGED <<now, ticks, nextJob, nextTab, updates, stopAcked, applied, startedOk,
                 closed, reporter, inflight>>

----------------------------------------------------------------------------
\* The clock: time passes between two requests, by 24 h or by 24 h and 1 ms

Tick ==
  /\ Fresh
  /\ ticks < MaxTicks
  /\ \E d \in {EXPIRY_TIME, EXPIRY_TIME + 1} : now' = now + d
  /\ ticks' = ticks + 1
  /\ last' = NoLast
  /\ UNCHANGED <<jobStore, stateStore, tabIdToContext, jobIdToSourceTabId, jobStateCache,
                 nextJob, nextTab, updates, stopAcked, applied, startedOk,
                 closed, reporter, inflight>>

\* A tab is closed (the source tab, or a tab StartJob made): from then on
\* chrome.tabs.sendMessage to it rejects
CloseTab ==
  \E tab \in ({SourceTab} \cup {FirstWorkerTab + n : n \in 1..nextTab}) \ closed :
    /\ Fresh
    /\ closed' = closed \cup {tab}
    /\ last' = NoLast
    /\ UNCHANGED <<now, ticks, jobStore, stateStore, tabIdToContext, jobIdToSourceTabId,
                   jobStateCache, nextJob, nextTab, updates, stopAcked, applied, startedOk,
                   reporter, inflight>>

Next ==
  \/ StartJob /\ UNCHANGED <<worker, client>>
  \/ GetContext /\ UNCHANGED <<worker, client>>
  \/ ChannelUpdate /\ UNCHANGED <<worker, client>>
  \/ StopJob /\ UNCHANGED <<worker, client>>
  \/ Control /\ UNCHANGED <<worker, client>>
  \/ OnStartup /\ UNCHANGED <<worker, client>>
  \/ Tick /\ UNCHANGED <<worker, client>>

\* a fresh installation: the storage is empty
Init == InitWith(0)

Spec == Init /\ [][Next]_vars

\* The job store at its capacity: the storage starts with one job less than
\* the cap or with as many jobs as the cap, and jobs are started and stopped
InitStore == \E n \in {MAX_STORED_JOBS - 1, MAX_STORED_JOBS} : InitWith(n)

NextStore ==
  \/ StartJob /\ UNCHANGED <<worker, client>>
  \/ StopJob /\ UNCHANGED <<worker, client>>
  \/ OnStartup /\ UNCHANGED <<worker, client>>
  \/ Tick /\ UNCHANGED <<worker, client>>

SpecStore == InitStore /\ [][NextStore]_vars

\* Tabs get closed while jobs run
NextClosed ==
  \/ StartJob /\ UNCHANGED <<worker, client>>
  \/ GetContext /\ UNCHANGED <<worker, client>>
  \/ ChannelUpdate /\ UNCHANGED <<worker, client>>
  \/ StopJob /\ UNCHANGED <<worker, client>>
  \/ Control /\ UNCHANGED <<worker, client>>
  \/ OnStartup /\ UNCHANGED <<worker, client>>
  \/ Tick /\ UNCHANGED <<worker, client>>
  \/ CloseTab /\ UNCHANGED <<worker, client>>

SpecClosed == Init /\ [][NextClosed]_vars

----------------------------------------------------------------------------
\* Handlers that interleave.  The background script runs on one thread: a
\* handler runs until it awaits, and while it is suspended other handlers run.
\* A handler in inflight is suspended at the await its pc names; what it has
\* read so far is in its record.  A storage read takes its value in the step
\* that calls it; the awaits inside storeJobData, storeJobState and
\* broadcastJobState are not split.

\* what getJobData(jobId) gave the handler
JobSeen(js, jobId) ==
  IF ~HasJob(js, jobId) THEN "missing"
  ELSE IF js[jobId].stoppedAt # 0 THEN "stopped" ELSE "running"

NewHandler(kind, jobId, channelId, patch, senderTab) ==
  [kind |-> kind, pc |-> "gotJob", jobId |-> jobId, channelId |-> channelId,
   patch |-> patch, senderTab |-> senderTab, seen |-> JobSeen(jobStore, jobId),
   cur |-> EmptyMap, ok |-> FALSE]

StartedJobs == {JobBase + n : n \in 1..nextJob}

Suspended(pc) == {h \in DOMAIN inflight : inflight[h].pc = pc}

\* handleV2ChannelUpdate up to  const job = await getJobData(jobId)
BeginUpdate ==
  \E jobId \in StartedJobs, channelId \in ALL_CHANNELS, patch \in Patches,
     senderTab \in SenderTabs :
    /\ Fresh
    /\ Cardinality(DOMAIN inflight) < MaxHandlers
    /\ inflight' = Put(inflight, Cardinality(DOMAIN inflight) + 1,
                       NewHandler("update", jobId, channelId, patch, senderTab))
    /\ last' = NoLast
    /\ UNCHANGED <<now, ticks, jobStore, stateStore, tabIdToContext, jobIdToSourceTabId,
                   jobStateCache, nextJob, nextTab, updates, stopAcked, applied, startedOk,
                   closed, reporter>>

\* current[channelId] = next; jobStateCache.set(jobId, current);
\* storeJobState(jobId, current); broadcastJobState(jobId); sendResponse
MergeAndStore(h, current) ==
  LET r == inflight[h]
      prev == IF r.channelId \in DOMAIN current THEN current[r.channelId]
              ELSE nowState(r.channelId, now)
      next == Merge(prev, r.patch, r.channelId, r.senderTab, now)
      merged == Put(current, r.channelId, next)
      bc == broadcastJobState(r.jobId, jobIdToSourceTabId,
                              Put(jobStateCache, r.jobId, merged), jobStore)
  IN
  /\ jobStateCache' = Put(jobStateCache, r.jobId, merged)
  /\ stateStore' = storeJobState(stateStore, r.jobId, merged)
  /\ applied' = applied \cup {r.jobId}
  /\ reporter' = IF r.senderTab # 0
                 THEN Put(reporter, <<r.jobId, r.channelId>>, r.senderTab)
                 ELSE reporter
  /\ inflight' = [inflight EXCEPT ![h].pc = "done",
                                  ![h].ok = ~BroadcastThrows(bc, closed)]
  /\ last' = [NoLast EXCEPT !.op = "ChannelUpdate", !.jobId = r.jobId,
                            !.channelId = r.channelId,
                            !.ok = ~BroadcastThrows(bc, closed), !.bcast = bc,
                            !.patch = r.patch, !.from = r.senderTab]

\* handleV2ChannelUpdate from the job it was given up to its response (the job
\* is stopped, or the cache has the state map) or up to  await getJobState(jobId)
UpdateContinue ==
  \E h \in Suspended("gotJob") :
    LET r == inflight[h]
    IN
    /\ r.kind = "update"
    /\ IF r.seen = "stopped"
       THEN /\ inflight' = [inflight EXCEPT ![h].pc = "done", ![h].ok = TRUE]
            /\ last' = [NoLast EXCEPT !.op = "ChannelUpdate", !.jobId = r.jobId,
                                      !.channelId = r.channelId, !.ok = TRUE,
                                      !.patch = r.patch, !.from = r.senderTab]
            /\ UNCHANGED <<jobStateCache, stateStore, applied, reporter>>
       ELSE IF r.jobId \in DOMAIN jobStateCache
       THEN MergeAndStore(h, jobStateCache[r.jobId])
       ELSE /\ inflight' = [inflight EXCEPT
                              ![h].pc = "gotState",
                              ![h].cur = IF r.jobId \in DOMAIN stateStore
                                         THEN stateStore[r.jobId] ELSE EmptyMap]
            /\ last' = NoLast
            /\ UNCHANGED <<jobStateCache, stateStore, applied, reporter>>
    /\ UNCHANGED <<now, ticks, jobStore, tabIdToContext, jobIdToSourceTabId,
                   nextJob, nextTab, updates, stopAcked, startedOk, closed>>

\* handleV2ChannelUpdate from the state map getJobState gave it (its own copy
\* of the record, or buildInitialState() when there is none) to its response
UpdateFinish ==
  \E h \in Suspended("gotState") :
    /\ MergeAndStore(h, IF DOMAIN inflight[h].cur # {} THEN inflight[h].cur
                        ELSE buildInitialState(now))
    /\ UNCHANGED <<now, ticks, jobStore, tabIdToContext, jobIdToSourceTabId,
                   nextJob, nextTab, updates, stopAcked, startedOk, closed>>

\* handleV2StopJob up to  const job = await getJobData(jobId)
BeginStop ==
  \E jobId \in JobIdInputs :
    /\ Fresh
    /\ Cardinality(DOMAIN inflight) < MaxHandlers
    /\ inflight' = Put(inflight, Cardinality(DOMAIN inflight) + 1,
                       NewHandler("stop", jobId, "", [status |-> ""], 0))
    /\ last' = NoLast
    /\ UNCHANGED <<now, ticks, jobStore, stateStore, tabIdToContext, jobIdToSourceTabId,
                   jobStateCache, nextJob, nextTab, updates, stopAcked, applied, startedOk,
                   closed, reporter>>

\* handleV2StopJob from the job it was given to its response: 'Job not found'
\* (from the handler or from markJobStopped, which reads the job again),
\* success at once for a job it saw stopped, else markJobStopped(jobId,
\* Date.now()), which stores the job it read with stoppedAt, and the stop
\* messages
StopFinish ==
  \E h \in Suspended("gotJob") :
    LET r == inflight[h]
    IN
    /\ r.kind = "stop"
    /\ IF r.seen = "missing" \/ (r.seen = "running" /\ ~HasJob(jobStore, r.jobId))
       THEN /\ inflight' = [inflight EXCEPT ![h].pc = "done", ![h].ok = FALSE]
            /\ last' = [NoLast EXCEPT !.op = "StopJob", !.jobId = r.jobId, !.ok = FALSE]
            /\ UNCHANGED <<jobStore, stateStore, stopAcked>>
       ELSE IF r.seen = "stopped"
       THEN /\ inflight' = [inflight EXCEPT ![h].pc = "done", ![h].ok = TRUE]
            /\ last' = [NoLast EXCEPT !.op = "StopJob", !.jobId = r.jobId, !.ok = TRUE]
            /\ stopAcked' = stopAcked \cup {r.jobId}
            /\ UNCHANGED <<jobStore, stateStore>>
       ELSE \E st \in markJobStopped(Storage, r.jobId, now) :
              /\ jobStore' = st.jobs
              /\ stateStore' = st.states
              /\ stopAcked' = stopAcked \cup {r.jobId}
              /\ inflight' = [inflight EXCEPT ![h].pc = "done", ![h].ok = TRUE]
              /\ last' = [NoLast EXCEPT
                            !.op = "StopJob", !.jobId = r.jobId, !.ok = TRUE,
                            !.sent = StopSignals(jobStateCache, st.states, r.jobId)]
    /\ UNCHANGED <<now, ticks, tabIdToContext, jobIdToSourceTabId, jobStateCache,
                   nextJob, nextTab, updates, applied, startedOk, closed, reporter>>

\* Date.now() moves on by a millisecond
Pass ==
  /\ Fresh
  /\ ticks < MaxTicks
  /\ now' = now + 1
  /\ ticks' = ticks + 1
  /\ last' = NoLast
  /\ UNCHANGED <<jobStore, stateStore, tabIdToContext, jobIdToSourceTabId, jobStateCache,
                 nextJob, nextTab, updates, stopAcked, applied, startedOk,
                 closed, reporter, inflight>>

NextRace ==
  \/ StartJob /\ UNCHANGED <<worker, client>>
  \/ OnStartup /\ UNCHANGED <<worker, client>>
  \/ Pass /\ UNCHANGED <<worker, client>>
  \/ BeginUpdate /\ UNCHANGED <<worker, client>>
  \/ UpdateContinue /\ UNCHANGED <<worker, client>>
  \/ UpdateFinish /\ UNCHANGED <<worker, client>>
  \/ BeginStop /\ UNCHANGED <<worker, client>>
  \/ StopFinish /\ UNCHANGED <<worker, client>>

SpecRace == Init /\ [][NextRace]_vars

----------------------------------------------------------------------------
\* The content script of a channel (the scripts of the channels have the same
\* bootstrap() and the same message listener; the editor flow is that of the
\* cnblogs script).  The page is the editor page the tab was opened at.  A
\* call of bootstrap() is a flow; it is suspended at the await its pc names:
\*   getContext  the GetContext request is on its way to the background script
\*   gotContext  the background script has read the job, the response is on its way
\*   waitTitle   waitForElement('#post-title') in stageFillTitle
\*   waitEditor  waitForElement('#Editor_Edit_EditorBody_ifr') in stageFillContent
\*   waitBody    the loop of stageFillContent that waits for the iframe body
\*   confirm     the loop of stageConfirmSuccess
\*   ended (returned, or failed and reported), stopped (returned on the stop
\*   error), left (location.href was set)
\* err is what the wait the flow was in last ended with.  A report() is handled
\* by the background script in the step that sends it; its broadcast is not
\* followed.

\* The content scripts of the channels share their variables, bootstrap() and
\* listener; the worker here has the stages of the cnblogs script.  The model
\* keeps the first NumChannels channels only, so the worker stands under the
\* id of the last channel it keeps.
CHANNEL_ID == ChannelOrder[2]

Waits == {"waitTitle", "waitEditor", "waitBody", "confirm"}

NewFlow == [pc |-> "getContext", got |-> {}, polls |-> 0, err |-> "none"]

\* what a wait finds at a poll: the element (or text) is there, it is not there
\* yet, or the time of the wait is over
PollOutcomes(f) ==
  {"found"} \cup (IF f.polls < MaxPolls THEN {"again"} ELSE {"timeout"})

\* handleV2ChannelUpdate for one report of the worker, on the cache and the
\* state records cs
ReportedOne(cs, jobId, patch) ==
  IF Discard(jobStore, jobId) THEN cs
  ELSE LET current == CurrentState(cs.cache, cs.states, jobId, now)
           prev == IF CHANNEL_ID \in DOMAIN current THEN current[CHANNEL_ID]
                   ELSE nowState(CHANNEL_ID, now)
           merged == Put(current, CHANNEL_ID,
                         Merge(prev, patch, CHANNEL_ID, worker.tab, now))
       IN  [cache |-> Put(cs.cache, jobId, merged),
            states |-> storeJobState(cs.states, jobId, merged)]

RECURSIVE ReportedAll(_, _, _)
ReportedAll(cs, jobId, patches) ==
  IF patches = <<>> THEN cs
  ELSE ReportedAll(ReportedOne(cs, jobId, Head(patches)), jobId, Tail(patches))

\* report(patch), one after the other: nothing is sent while currentJob is null
Report(job, patches) ==
  LET sends == IsJob(job) /\ patches # <<>>
      r == IF sends
           THEN ReportedAll([cache |-> jobStateCache, states |-> stateStore],
                            job.jobId, patches)
           ELSE [cache |-> jobStateCache, states |-> stateStore]
      merges == sends /\ ~Discard(jobStore, job.jobId)
  IN  /\ jobStateCache' = r.cache
      /\ stateStore' = r.states
      /\ applied' = IF merges THEN applied \cup {job.jobId} ELSE applied
      /\ reporter' = IF merges THEN Put(reporter, <<job.jobId, CHANNEL_ID>>, worker.tab)
                     ELSE reporter

Failed(stage) == [status |-> "failed", stage |-> stage, userMessage |-> "failed"]

Stage(stage) == [status |-> "running", stage |-> stage]

WorkerFrame ==
  /\ last' = NoLast
  /\ UNCHANGED <<now, ticks, jobStore, tabIdToContext, jobIdToSourceTabId, nextJob, nextTab,
                 updates, stopAcked, startedOk, closed, inflight, client>>

Active == {f \in DOMAIN worker.flows : worker.flows[f].pc \notin {"ended", "stopped", "left"}}

\* the page of the channel is loaded in the tab StartJob made for it: the
\* script sets its variables, adds its listener and calls bootstrap()
WorkerLoad ==
  \E tab \in DOMAIN tabIdToContext :
    /\ worker.tab = 0
    /\ tabIdToContext[tab].channelId = CHANNEL_ID
    /\ tab \notin closed
    /\ worker' = [WorkerInit EXCEPT !.tab = tab, !.flows = Put(EmptyMap, 1, NewFlow)]
    /\ WorkerFrame
    /\ UNCHANGED <<jobStateCache, stateStore, applied, reporter>>

\* handleV2GetContext up to  await getJobData(ctx.jobId)
ContextRead ==
  \E f \in Active :
    /\ ~worker.left
    /\ worker.flows[f].pc = "getContext"
    /\ worker' = [worker EXCEPT
                    !.flows[f].pc = "gotContext",
                    !.flows[f].got = ContextOf(tabIdToContext, jobStore, worker.tab)]
    /\ WorkerFrame
    /\ UNCHANGED <<jobStateCache, stateStore, applied, reporter>>

\* bootstrap() from the response of GetContext to its first wait
ContextResponse ==
  \E f \in Active :
    LET got == worker.flows[f].got
        ctx == CHOOSE c \in got : TRUE
    IN
    /\ ~worker.left
    /\ worker.flows[f].pc = "gotContext"
    /\ IF got = {}
       THEN \* 'get context failed' is caught and reported
            /\ worker' = [worker EXCEPT !.flows[f].pc = "ended"]
            /\ Report(worker.currentJob, <<Failed(worker.currentStage)>>)
       ELSE IF ctx.channelId # CHANNEL_ID
       THEN /\ worker' = [worker EXCEPT !.flows[f].pc = "ended"]
            /\ Report(NoJob, <<>>)
       ELSE IF ctx.job.stoppedAt # 0
       THEN /\ worker' = [worker EXCEPT !.currentJob = ctx.job, !.flows[f].pc = "ended"]
            /\ Report(NoJob, <<>>)
       ELSE \* runFlow: report openEntry; stageFillTitle: report, waitForElement
            /\ worker' = [worker EXCEPT !.currentJob = ctx.job,
                                        !.currentStage = "fillTitle",
                                        !.flows[f].pc = "waitTitle",
                                        !.flows[f].polls = 0]
            /\ Report(ctx.job, <<Stage("openEntry"), Stage("fillTitle")>>)
    /\ WorkerFrame

\* a poll of waitForElement('#post-title', 15000).  Its error, the stop error
\* too, is caught by stageFillTitle, which then looks for another input: with
\* one it types the title and goes on to stageFillContent, without it throws
PollTitle ==
  \E f \in Active :
    /\ ~worker.left
    /\ worker.flows[f].pc = "waitTitle"
    /\ \E o \in IF worker.stopRequested THEN {"stop"} ELSE PollOutcomes(worker.flows[f]) :
         IF o = "again"
         THEN /\ worker' = [worker EXCEPT !.flows[f].polls = @ + 1]
              /\ Report(NoJob, <<>>)
         ELSE \E input \in IF o = "found" THEN {TRUE} ELSE {TRUE, FALSE} :
                IF input
                THEN /\ worker' = [worker EXCEPT
                                     !.currentStage = "fillContent",
                                     !.flows[f].pc = "waitEditor",
                                     !.flows[f].polls = 0,
                                     !.flows[f].err = IF o = "found" THEN "none" ELSE o]
                     /\ Report(worker.currentJob, <<Stage("fillContent")>>)
                ELSE /\ worker' = [worker EXCEPT !.flows[f].pc = "ended",
                                                 !.flows[f].err = o]
                     /\ Report(worker.currentJob, <<Failed(worker.currentStage)>>)
    /\ WorkerFrame

\* a poll of waitForElement('#Editor_Edit_EditorBody_ifr', 15000): the stop
\* error goes up to bootstrap(), which returns; the timeout is reported
PollEditor ==
  \E f \in Active :
    /\ ~worker.left
    /\ worker.flows[f].pc = "waitEditor"
    /\ \E o \in IF worker.stopRequested THEN {"stop"} ELSE PollOutcomes(worker.flows[f]) :
         /\ worker' = [worker EXCEPT
                         !.flows[f].pc = CASE o = "stop" -> "stopped"
                                           [] o = "found" -> "waitBody"
                                           [] o = "again" -> "waitEditor"
                                           [] o = "timeout" -> "ended",
                         !.flows[f].polls = IF o = "again" THEN @ + 1 ELSE 0,
                         !.flows[f].err = IF o \in {"stop", "timeout"} THEN o ELSE @]
         /\ Report(worker.currentJob,
                   IF o = "timeout" THEN <<Failed(worker.currentStage)>> ELSE <<>>)
    /\ WorkerFrame

\* a turn of the loop of stageFillContent (every 200 ms, for 15 s): it looks at
\* iframe.contentDocument.body only.  With the body the content is written and
\* reported, and stageSubmitPublish reports and clicks the publish button (or
\* throws without one), and stageConfirmSuccess reports and starts its loop
PollBody ==
  \E f \in Active :
    /\ ~worker.left
    /\ worker.flows[f].pc = "waitBody"
    /\ \E o \in PollOutcomes(worker.flows[f]) :
         IF o = "again"
         THEN /\ worker' = [worker EXCEPT !.flows[f].polls = @ + 1]
              /\ Report(NoJob, <<>>)
         ELSE IF o = "timeout"
         THEN /\ worker' = [worker EXCEPT !.flows[f].pc = "ended", !.flows[f].err = o]
              /\ Report(worker.currentJob, <<Failed(worker.currentStage)>>)
         ELSE \E button \in {TRUE, FALSE} :
                IF button
                THEN /\ worker' = [worker EXCEPT !.currentStage = "confirmSuccess",
                                                 !.flows[f].pc = "confirm",
                                                 !.flows[f].polls = 0]
                     /\ Report(worker.currentJob,
                               <<Stage("fillContent"), Stage("submitPublish"),
                                 Stage("confirmSuccess")>>)
                ELSE /\ worker' = [worker EXCEPT !.currentStage = "submitPublish",
                                                 !.flows[f].pc = "ended"]
                     /\ Report(worker.currentJob,
                               <<Stage("fillContent"), Stage("submitPublish"),
                                 Failed("submitPublish")>>)
    /\ WorkerFrame

\* a turn of the loop of stageConfirmSuccess (every 300 ms, for 5 s): it looks
\* at the text of the page only.  With the text, or at the end of the 5 s
\* (reported as waiting_user), runFlow reports and sets location.href
PollConfirm ==
  \E f \in Active :
    /\ ~worker.left
    /\ worker.flows[f].pc = "confirm"
    /\ \E o \in PollOutcomes(worker.flows[f]) :
         IF o = "again"
         THEN /\ worker' = [worker EXCEPT !.flows[f].polls = @ + 1]
              /\ Report(NoJob, <<>>)
         ELSE /\ worker' = [worker EXCEPT !.flows[f].pc = "left", !.left = TRUE]
              /\ Report(worker.currentJob,
                        IF o = "found" THEN <<Stage("confirmSuccess")>>
                        ELSE <<[status |-> "waiting_user", stage |-> "waitingUser"],
                               Stage("confirmSuccess")>>)
    /\ WorkerFrame

\* the messages of the last step that chrome.tabs.sendMessage gave to the
\* listener of the worker
Heard(sent) ==
  {m \in sent : worker.tab # 0 /\ ~worker.left /\ m.tab = worker.tab /\ m.tab \notin closed}

\* the listener: nothing while currentJob is null; a stop for the job sets
\* stopRequested; a retry or continue for the job and the channel calls bootstrap()
Listener(sent) ==
  LET stops == {m \in Heard(sent) : m.type = "V2_REQUEST_STOP"}
      calls == {m \in Heard(sent) :
                  /\ m.type \in {"V2_REQUEST_RETRY", "V2_REQUEST_CONTINUE"}
                  /\ IsJob(worker.currentJob)
                  /\ m.jobId = worker.currentJob.jobId
                  /\ m.channelId = CHANNEL_ID}
  IN  [worker EXCEPT
         !.stopSent = @ \/ stops # {},
         !.stopRequested = @ \/ \E m \in stops : /\ IsJob(worker.currentJob)
                                                 /\ m.jobId = worker.currentJob.jobId,
         !.flows = IF calls # {} THEN Put(@, Cardinality(DOMAIN @) + 1, NewFlow) ELSE @]

\* handleV2StopJob, and the listener of the worker for its stop message
StopHeard ==
  /\ StopJob
  /\ worker' = Listener(last'.sent)
  /\ UNCHANGED client

\* handleV2Control, and the listener of the worker for the message forwarded
ControlHeard ==
  /\ Cardinality(DOMAIN worker.flows) < MaxFlows
  /\ Control
  /\ worker' = Listener(last'.sent)
  /\ UNCHANGED client

NextWorker ==
  \/ StartJob /\ UNCHANGED <<worker, client>>
  \/ WorkerLoad
  \/ ContextRead
  \/ ContextResponse
  \/ PollTitle
  \/ PollEditor
  \/ PollBody
  \/ PollConfirm
  \/ StopHeard
  \/ ControlHeard

SpecWorker == Init /\ [][NextWorker]_vars

----------------------------------------------------------------------------
\* The content script of the article page (wechat-content.ts), the initiating
\* client.  A request it sends is handled by the background script in a later
\* step; the broadcasts and responses sent to its tab are received one by one,
\* in the order they were sent (handleV2StartJob awaits broadcastJobState
\* before it calls sendResponse).

\* the tab the worker of a channel of the earlier job runs in
EarlierTab(c) == 1 + CHOOSE i \in 1..Len(ChannelOrder) : ChannelOrder[i] = c

\* the state of the earlier job: every channel waits for the user
EarlierState ==
  [c \in ALL_CHANNELS |->
     [channelId |-> c, status |-> "waiting_user", stage |-> "waitingUser",
      userMessage |-> "", updatedAt |-> 1, tabId |-> EarlierTab(c)]]

\* A job was started from the article page earlier in this session of the
\* background script (job 1, made at time 1): it is stored, its workers have
\* reported waiting_user, and the client has received its last broadcast
InitClient ==
  /\ now = MAX_STORED_JOBS
  /\ ticks = 0
  /\ jobStore = [i \in {1} |-> StoredJob(i)]
  /\ stateStore = [i \in {1} |-> EarlierState]
  /\ tabIdToContext = [t \in {EarlierTab(c) : c \in ALL_CHANNELS} |->
                         [jobId |-> 1,
                          channelId |-> CHOOSE c \in ALL_CHANNELS : EarlierTab(c) = t]]
  /\ jobIdToSourceTabId = [i \in {1} |-> SourceTab]
  /\ jobStateCache = [i \in {1} |-> EarlierState]
  /\ nextJob = 0
  /\ nextTab = 0
  /\ updates = 0
  /\ last = NoLast
  /\ stopAcked = {}
  /\ applied = {1}
  /\ startedOk = {1}
  /\ closed = {}
  /\ reporter = [k \in {<<1, c>> : c \in ALL_CHANNELS} |-> EarlierTab(k[2])]
  /\ inflight = EmptyMap
  /\ worker = WorkerInit
  /\ client = [ClientInit EXCEPT !.currentJobId = 1, !.latestState = EarlierState,
                                 !.latestOf = 1]

hasRunningChannels(latestState) ==
  \E c \in DOMAIN latestState : latestState[c].status = "running"

isExecutingNow(cl) ==
  /\ ~cl.isJobStopped
  /\ \/ cl.isStartingJob
     \/ cl.isAwaitingFirstBroadcast
     \/ hasRunningChannels(cl.latestState)

\* a message sent to the tab of the client
ClientMessage(type, jobId, ok, state) ==
  [type |-> type, jobId |-> jobId, ok |-> ok, state |-> state]

\* the broadcast of a handler, as messages to the client
Broadcasts(bcast) ==
  IF bcast = {} THEN <<>>
  ELSE LET m == CHOOSE m \in bcast : TRUE
       IN  <<ClientMessage("V2_JOB_BROADCAST", m.jobId, TRUE, m.state)>>

\* what a step of the client leaves alone
ClientFrame ==
  /\ last' = NoLast
  /\ UNCHANGED <<now, ticks, jobStore, stateStore, tabIdToContext, jobIdToSourceTabId,
                 jobStateCache, nextJob, nextTab, updates, stopAcked, applied, startedOk,
                 closed, reporter, inflight, worker>>

\* handleStartClick up to its await: the button stops the job when the panel
\* is executing, and starts one otherwise.  The extraction of the article can
\* fail, and then no request is sent.
handleStartClick ==
  /\ ClientFrame
  /\ IF isExecutingNow(client)
     THEN /\ client.currentJobId # 0
          /\ ~client.isStoppingJob
          /\ client' = [client EXCEPT
                          !.isStoppingJob = TRUE,
                          !.requests = @ \cup {[type |-> "V2_REQUEST_STOP",
                                                jobId |-> client.currentJobId]}]
     ELSE /\ ~client.isStartingJob
          /\ nextJob < MaxJobs
          /\ \E extracted \in BOOLEAN :
               client' = [client EXCEPT
                            !.isJobStopped = FALSE,
                            !.isStartingJob = extracted,
                            !.isAwaitingFirstBroadcast = FALSE,
                            !.currentJobId = 0,
                            !.latestState = EmptyMap,
                            !.latestOf = 0,
                            !.responded = 0,
                            !.requests = IF extracted
                                         THEN @ \cup {[type |-> "V2_START_JOB", jobId |-> 0]}
                                         ELSE @]

\* the background script handles the StartJob request of the client
StartHandled ==
  /\ \E r \in client.requests : r.type = "V2_START_JOB"
  /\ StartJob
  /\ last'.jobId # 0
  /\ client' = [client EXCEPT
                  !.requests = {r \in @ : r.type # "V2_START_JOB"},
                  !.inbox = @ \o Broadcasts(last'.bcast)
                              \o <<ClientMessage("V2_START_JOB", last'.respJobId,
                                                 last'.ok, EmptyMap)>>]
  /\ UNCHANGED worker

\* the background script handles the RequestStop of the client
StopHandled ==
  /\ \E r \in client.requests : r.type = "V2_REQUEST_STOP" /\ StopJob /\ last'.jobId = r.jobId
  /\ client' = [client EXCEPT
                  !.requests = {r \in @ : r.type # "V2_REQUEST_STOP"},
                  !.inbox = @ \o <<ClientMessage("V2_REQUEST_STOP", last'.jobId,
                                                 last'.ok, EmptyMap)>>]
  /\ UNCHANGED worker

\* the background script handles the ChannelUpdate of a worker
UpdateHandled ==
  /\ ChannelUpdate
  /\ client' = [client EXCEPT !.inbox = @ \o Broadcasts(last'.bcast)]
  /\ UNCHANGED worker

\* the listener of the client on a JobBroadcast
OnBroadcast(cl, m) ==
  IF cl.currentJobId # 0 /\ m.jobId # cl.currentJobId THEN cl
  ELSE [cl EXCEPT !.currentJobId = m.jobId, !.isAwaitingFirstBroadcast = FALSE,
                  !.latestState = m.state, !.latestOf = m.jobId]

\* handleStartClick after the StartJob response
OnStartResponse(cl, m) ==
  IF ~m.ok \/ m.jobId = 0 THEN [cl EXCEPT !.isStartingJob = FALSE]
  ELSE [cl EXCEPT !.currentJobId = m.jobId, !.responded = m.jobId,
                  !.isAwaitingFirstBroadcast = IF DOMAIN cl.latestState = {} THEN TRUE ELSE @,
                  !.isStartingJob = FALSE]

\* handleStartClick after the RequestStop response
OnStopResponse(cl, m) ==
  IF ~m.ok THEN [cl EXCEPT !.isStoppingJob = FALSE]
  ELSE [cl EXCEPT !.isJobStopped = TRUE, !.isAwaitingFirstBroadcast = FALSE,
                  !.isStoppingJob = FALSE]

\* the client receives the next message sent to its tab
ClientReceive ==
  /\ client.inbox # <<>>
  /\ ClientFrame
  /\ LET m == Head(client.inbox)
         cl == [client EXCEPT !.inbox = Tail(@)]
     IN  client' = CASE m.type = "V2_JOB_BROADCAST" -> OnBroadcast(cl, m)
                     [] m.type = "V2_START_JOB" -> OnStartResponse(cl, m)
                     [] OTHER -> OnStopResponse(cl, m)

NextClient ==
  \/ handleStartClick
  \/ StartHandled
  \/ StopHandled
  \/ UpdateHandled
  \/ ClientReceive

SpecClient == InitClient /\ [][NextClient]_vars

----------------------------------------------------------------------------
\* Vocabulary of the properties

\* key k is absent in both maps, or present in both with the same value
SameAt(f, g, k) ==
  /\ (k \in DOMAIN f) = (k \in DOMAIN g)
  /\ k \in DOMAIN f => f[k] = g[k]

\* the job is stored and stoppedAt is not set
Running(jobId) == jobId \in DOMAIN jobStore /\ jobStore[jobId].stoppedAt = 0

\* the job's state map as the orchestrator holds it: the cached map, or the
\* persisted one when the job has no cache entry
HasView(cache, ss, jobId) == jobId \in DOMAIN cache \/ jobId \in DOMAIN ss

View(cache, ss, jobId) == IF jobId \in DOMAIN cache THEN cache[jobId] ELSE ss[jobId]

ControlOps == {"V2_REQUEST_RETRY", "V2_REQUEST_CONTINUE"}

----------------------------------------------------------------------------
\* C1: post-stop no-op.  Every ChannelUpdate for a job whose RequestStop has
\* answered success is answered success and leaves the job's cache entry and
\* its persisted state record as they were.
C1_PostStopNoOp ==
  [][(last'.op = "ChannelUpdate" /\ last'.jobId \in stopAcked)
       => /\ last'.ok
          /\ SameAt(jobStateCache', jobStateCache, last'.jobId)
          /\ SameAt(stateStore', stateStore, last'.jobId)]_vars

\* C2: RequestStop is idempotent.  A RequestStop that directly follows a
\* RequestStop answered success for the same job finds stoppedAt written, is
\* answered success, changes no stored record and sends no stop signal.
C2_StopTwice ==
  [][(last.op = "StopJob" /\ last.ok /\ last'.op = "StopJob" /\ last'.jobId = last.jobId)
       => /\ last'.ok
          /\ last.jobId \in DOMAIN jobStore /\ jobStore[last.jobId].stoppedAt # 0
          /\ jobStore' = jobStore /\ stateStore' = stateStore
          /\ last'.sent = {}]_vars

\* C3: isolation.  A ChannelUpdate for channel A of a running job changes the
\* entry of A only: the entry of every other channel of the job is afterwards,
\* in the cache and in the persisted state record, what it was there before (in
\* a copy the job did not have before, what it was in the other copy), and the
\* cache entry and the state record of every other job are untouched.
C3_Isolation ==
  [][(last'.op = "ChannelUpdate" /\ Running(last'.jobId))
       => /\ last'.ok
          /\ \A j \in (DOMAIN jobStateCache' \cup DOMAIN stateStore'
                         \cup DOMAIN jobStateCache \cup DOMAIN stateStore) \ {last'.jobId} :
               /\ SameAt(jobStateCache', jobStateCache, j)
               /\ SameAt(stateStore', stateStore, j)
          /\ HasView(jobStateCache, stateStore, last'.jobId)
          /\ \A c \in DOMAIN View(jobStateCache, stateStore, last'.jobId) \ {last'.channelId} :
               /\ jobStateCache'[last'.jobId][c]
                    = View(jobStateCache, stateStore, last'.jobId)[c]
               /\ stateStore'[last'.jobId][c]
                    = IF last'.jobId \in DOMAIN stateStore
                      THEN stateStore[last'.jobId][c]
                      ELSE View(jobStateCache, stateStore, last'.jobId)[c]
          /\ DOMAIN jobStateCache'[last'.jobId]
               = DOMAIN View(jobStateCache, stateStore, last'.jobId) \cup {last'.channelId}
          /\ DOMAIN stateStore'[last'.jobId] = DOMAIN jobStateCache'[last'.jobId]]_vars

----------------------------------------------------------------------------
\* the entries of the job's state maps (cached and persisted)
Entries(jobId) ==
  (IF jobId \in DOMAIN jobStateCache
   THEN {jobStateCache[jobId][c] : c \in DOMAIN jobStateCache[jobId]} ELSE {})
  \cup
  (IF jobId \in DOMAIN stateStore
   THEN {stateStore[jobId][c] : c \in DOMAIN stateStore[jobId]} ELSE {})

\* C4 as stated: a successful StartJob with k selected channels leaves a state
\* map of exactly k entries, and as long as the job is stored the key set of its
\* state map (persisted, and cached if there is a cache entry) is Job.channels.
C4_ExactlyK ==
  /\ [][(last'.op = "StartJob" /\ last'.ok)
          => /\ Cardinality(DOMAIN stateStore'[last'.jobId])
                  = Len(jobStore'[last'.jobId].channels)
             /\ Cardinality(DOMAIN jobStateCache'[last'.jobId])
                  = Len(jobStore'[last'.jobId].channels)]_vars
  /\ [](\A j \in startedOk :
          j \in DOMAIN jobStore
            => /\ j \in DOMAIN stateStore
               /\ DOMAIN stateStore[j] = Range(jobStore[j].channels)
               /\ j \in DOMAIN jobStateCache
                    => DOMAIN jobStateCache[j] = Range(jobStore[j].channels))

\* C4 as amended: as long as a job whose StartJob succeeded is stored, its
\* persisted state map, and its cached one if there is a cache entry, has one
\* entry for each channel of ALL_CHANNELS, which include the k selected ones.
C4_AllChannels ==
  \A j \in startedOk :
    j \in DOMAIN jobStore
      => /\ j \in DOMAIN stateStore
         /\ DOMAIN stateStore[j] = ALL_CHANNELS
         /\ Range(jobStore[j].channels) \subseteq DOMAIN stateStore[j]
         /\ j \in DOMAIN jobStateCache => DOMAIN jobStateCache[j] = ALL_CHANNELS

\* a job started with one selected channel out of several was updated and
\* stopped, and its process restarted: the persisted map still has every channel
C4_Witness ==
  \E j \in startedOk :
    /\ j \in DOMAIN jobStore /\ j \in applied
    /\ jobStore[j].stoppedAt # 0
    /\ Len(jobStore[j].channels) = 1
    /\ j \notin DOMAIN jobStateCache
    /\ Cardinality(DOMAIN stateStore[j]) > 1

\* C5: from a successful StartJob until a ChannelUpdate for the job is merged,
\* every entry of the job is not_started (without tab) or running (at stage
\* openEntry, with its tab); when StartJob answers, each tab that
\* chrome.tabs.create returned is the tab of one running/openEntry entry, in the
\* cache and in the store, and tabIdToContext maps it to the job and that channel,
\* as it does for every tab of a cached entry throughout that time.
C5_AfterStart ==
  /\ [](\A j \in startedOk \ applied : \A e \in Entries(j) :
          \/ e.status = "not_started" /\ e.tabId = 0
          \/ e.status = "running" /\ e.stage = "openEntry" /\ e.tabId # 0)
  /\ [](\A j \in (startedOk \ applied) \cap DOMAIN jobStateCache :
          \A c \in DOMAIN jobStateCache[j] :
            LET tab == jobStateCache[j][c].tabId
            IN  tab # 0 => /\ tab \in DOMAIN tabIdToContext
                           /\ tabIdToContext[tab].jobId = j
                           /\ tabIdToContext[tab].channelId = c)
  /\ [][(last'.op = "StartJob" /\ last'.ok)
          => \A tab \in last'.spawned :
               /\ tab \in DOMAIN tabIdToContext'
               /\ tabIdToContext'[tab].jobId = last'.jobId
               /\ \A m \in {jobStateCache'[last'.jobId], stateStore'[last'.jobId]} :
                    LET e == m[tabIdToContext'[tab].channelId]
                    IN  e.status = "running" /\ e.stage = "openEntry" /\ e.tabId = tab]_vars

\* StartJob has just answered success with one channel running in its tab and
\* one channel without tab
C5_Witness ==
  /\ last.op = "StartJob" /\ last.ok
  /\ last.spawned # {}
  /\ \E c \in ALL_CHANNELS : jobStateCache[last.jobId][c].status = "not_started"
  /\ \E tab \in last.spawned :
       stateStore[last.jobId][tabIdToContext[tab].channelId].tabId = tab

\* C6: a StartJob whose article lacks a non-empty title, contentHtml or
\* sourceUrl is answered {success: false} and does nothing else: nothing is
\* stored, cached or registered, no tab is made, nothing is broadcast.
C6_Rejected ==
  [][(/\ last'.op = "StartJob"
      /\ \/ last'.article.title = ""
         \/ last'.article.contentHtml = ""
         \/ last'.article.sourceUrl = "")
       => /\ ~last'.ok /\ last'.respJobId = 0
          /\ last'.spawned = {} /\ last'.bcast = {} /\ last'.sent = {}
          /\ UNCHANGED <<jobStore, stateStore, tabIdToContext, jobIdToSourceTabId,
                         jobStateCache, nextJob, nextTab>>]_vars

\* a StartJob with a title but without contentHtml was rejected while a job
\* started earlier is stored
C6_Witness ==
  /\ last.op = "StartJob" /\ ~last.ok
  /\ last.article.title # "" /\ last.article.contentHtml = ""
  /\ jobStore # EmptyMap

\* C7: when chrome.tabs.create gives no tab for one selected channel and a tab
\* for every other one, StartJob answers {success: true, jobId}, the entry of
\* the channel without tab is failed with a diagnostic, the others are
\* running/openEntry, and that state is persisted and broadcast.
C7_SpawnFailure ==
  [][(last'.op = "StartJob" /\ last'.jobId # 0 /\ Cardinality(last'.noTab) = 1)
       => /\ last'.ok /\ last'.respJobId = last'.jobId
          /\ \A c \in last'.noTab :
               /\ jobStateCache'[last'.jobId][c].status = "failed"
               /\ jobStateCache'[last'.jobId][c].userMessage # ""
          /\ \A c \in Range(jobStore'[last'.jobId].channels) \ last'.noTab :
               /\ jobStateCache'[last'.jobId][c].status = "running"
               /\ jobStateCache'[last'.jobId][c].stage = "openEntry"
          /\ stateStore'[last'.jobId] = jobStateCache'[last'.jobId]
          /\ last'.bcast # {}]_vars

----------------------------------------------------------------------------
\* the stored jobs that are older than 24 h at time t
Over24h(t) == {j \in DOMAIN jobStore : t - jobStore[j].createdAt > 24 * 60 * 60 * 1000}

\* a request has just put a job record: an accepted StartJob (a new record), or
\* a RequestStop that wrote stoppedAt (a record that was stored)
PutStep ==
  \/ last'.op = "StartJob" /\ last'.jobId # 0
  \/ last'.op = "StopJob" /\ last'.ok /\ jobStore[last'.jobId].stoppedAt = 0

\* C8: capacity eviction.  When no stored job is older than 24 h: a put that
\* makes 21 jobs removes the job with the smallest createdAt and its state
\* record, and nothing else, and leaves 20 jobs, the put one among them; a put
\* that leaves 20 jobs or fewer removes nothing.
C8_Eviction ==
  [][(PutStep /\ Over24h(now) = {})
       => LET put == DOMAIN jobStore \cup {last'.jobId}
              oldest == CHOOSE j \in DOMAIN jobStore :
                          \A k \in DOMAIN jobStore \ {j} :
                            jobStore[j].createdAt < jobStore[k].createdAt
          IN  IF Cardinality(put) = MAX_STORED_JOBS + 1
              THEN /\ DOMAIN jobStore' = put \ {oldest}
                   /\ Cardinality(DOMAIN jobStore') = MAX_STORED_JOBS
                   /\ last'.jobId \in DOMAIN jobStore'
                   /\ oldest \notin DOMAIN stateStore'
                   /\ \A j \in DOMAIN jobStore \ {oldest} :
                        /\ jobStore'[j] = jobStore[j] \/ j = last'.jobId
                        /\ SameAt(stateStore', stateStore, j)
              ELSE /\ Cardinality(put) <= MAX_STORED_JOBS
                   /\ DOMAIN jobStore' = put
                   /\ DOMAIN stateStore \subseteq DOMAIN stateStore'
                   /\ \A j \in DOMAIN jobStore \ {last'.jobId} :
                        /\ jobStore'[j] = jobStore[j]
                        /\ stateStore'[j] = stateStore[j]]_vars

\* a StartJob made with 20 unexpired jobs stored has been accepted: the job made
\* at time 1 and its state record are gone, and 20 jobs are stored
C8_Witness ==
  /\ last.op = "StartJob" /\ last.jobId \in DOMAIN jobStore
  /\ now = MAX_STORED_JOBS
  /\ Cardinality(DOMAIN jobStore) = MAX_STORED_JOBS
  /\ 1 \notin DOMAIN jobStore /\ 1 \notin DOMAIN stateStore
  /\ 2 \in DOMAIN jobStore /\ 2 \in DOMAIN stateStore

\* C9: TTL expiry.  cleanExpiredData run at time now (at the load of the
\* background script) removes the job record and the state record of the stored
\* jobs with now - createdAt > 24 h, which are not found afterwards, and changes
\* no record of another job: a job aged 24 h or less is still found, unchanged.
C9_Sweep ==
  [][(last'.op = "OnStartup")
       => /\ DOMAIN jobStore' = DOMAIN jobStore \ Over24h(now)
          /\ DOMAIN stateStore' = DOMAIN stateStore \ Over24h(now)
          /\ \A j \in Over24h(now) : ~HasJob(jobStore', j) /\ j \notin DOMAIN stateStore'
          /\ \A j \in DOMAIN jobStore' : HasJob(jobStore', j) /\ jobStore'[j] = jobStore[j]
          /\ \A j \in DOMAIN stateStore' : stateStore'[j] = stateStore[j]]_vars

\* the sweep has run 24 h after the job made at time 20 was stored: that job
\* and its state record are still stored, the job made at time 19 is not
C9_Witness ==
  /\ last.op = "OnStartup"
  /\ now = MAX_STORED_JOBS + 24 * 60 * 60 * 1000
  /\ MAX_STORED_JOBS \in DOMAIN jobStore /\ MAX_STORED_JOBS \in DOMAIN stateStore
  /\ jobStore[MAX_STORED_JOBS].createdAt = now - 24 * 60 * 60 * 1000
  /\ (MAX_STORED_JOBS - 1) \notin DOMAIN jobStore
  /\ (MAX_STORED_JOBS - 1) \notin DOMAIN stateStore

\* the channel has no tab in the job's state map as the orchestrator holds it
NoHandle(jobId, channelId) ==
  \/ ~HasView(jobStateCache, stateStore, jobId)
  \/ channelId \notin DOMAIN View(jobStateCache, stateStore, jobId)
  \/ View(jobStateCache, stateStore, jobId)[channelId].tabId = 0

\* C10: control routing.  A RequestRetry or RequestContinue for a channel
\* without known tab is answered {success: false}, sends no message to a tab and
\* changes nothing stored, cached or registered.
C10_NoHandle ==
  [][(last'.op \in ControlOps /\ NoHandle(last'.jobId, last'.channelId))
       => /\ ~last'.ok
          /\ last'.sent = {} /\ last'.bcast = {}
          /\ UNCHANGED <<jobStore, stateStore, tabIdToContext, jobIdToSourceTabId,
                         jobStateCache>>]_vars

\* a RequestRetry for a channel without tab of a running job, another channel
\* of which has its tab, has been answered {success: false}
C10_Witness ==
  /\ last.op = "V2_REQUEST_RETRY" /\ ~last.ok /\ last.sent = {}
  /\ Running(last.jobId)
  /\ last.jobId \in DOMAIN jobStateCache
  /\ jobStateCache[last.jobId][last.channelId].tabId = 0
  /\ \E c \in ALL_CHANNELS : jobStateCache[last.jobId][c].tabId # 0

----------------------------------------------------------------------------
\* C11: once a RequestStop for a job has been answered success, every
\* RequestRetry and RequestContinue for a channel of that job is answered
\* {success: false} and no message is sent to a tab.
C11_StoppedControl ==
  [][(last'.op \in ControlOps /\ last'.jobId \in stopAcked)
       => ~last'.ok /\ last'.sent = {}]_vars

\* C13: a RequestRetry or RequestContinue that names a job of which no Job
\* record is stored is answered {success: false} and no message is sent to a
\* tab, whatever the cache holds for that job.
C13_UnknownJob ==
  [][(last'.op \in ControlOps /\ last'.jobId \notin DOMAIN jobStore)
       => ~last'.ok /\ last'.sent = {}]_vars

----------------------------------------------------------------------------
\* C12: a RequestRetry or RequestContinue answered success for a running job
\* has sent one message, the request as it came (type, jobId, channelId), to
\* the tab that was spawned for the channel or, if a merged ChannelUpdate for
\* the channel came from a tab since, to the tab the last one came from; the
\* Job records, the cached and the persisted state maps and the registries are
\* unchanged.
C12_Forward ==
  [][(last'.op \in ControlOps /\ last'.ok /\ Running(last'.jobId))
       => /\ <<last'.jobId, last'.channelId>> \in DOMAIN reporter
          /\ last'.sent = {[tab |-> reporter[<<last'.jobId, last'.channelId>>],
                            type |-> last'.op, jobId |-> last'.jobId,
                            channelId |-> last'.channelId]}
          /\ reporter[<<last'.jobId, last'.channelId>>] \notin closed
          /\ UNCHANGED <<jobStore, stateStore, jobStateCache, tabIdToContext,
                         jobIdToSourceTabId>>]_vars

\* a RequestRetry for a channel of a running job went to the tab that last
\* reported the channel, which is not the tab spawned for it
C12_Witness ==
  /\ last.op = "V2_REQUEST_RETRY" /\ last.ok
  /\ Running(last.jobId)
  /\ \E m \in last.sent :
       /\ m.tab = reporter[<<last.jobId, last.channelId>>]
       /\ m.tab \in DOMAIN tabIdToContext
       /\ tabIdToContext[m.tab].channelId # last.channelId
       /\ jobStateCache[last.jobId][last.channelId].tabId = m.tab

----------------------------------------------------------------------------
\* C14: a GetContext from a tab that is in tabIdToContext and whose job is
\* stored, stopped or not, is answered success with that Job record and the
\* channel of the tab; from any other sender it is answered {success: false};
\* it changes nothing.  An entry of tabIdToContext is what the StartJob that
\* made the tab bound to it: that job and the channel the tab was spawned for.
C14_GetContext ==
  /\ [][(last'.op = "GetContext")
          => /\ IF /\ last'.from \in DOMAIN tabIdToContext
                   /\ tabIdToContext[last'.from].jobId \in DOMAIN jobStore
                THEN /\ last'.ok
                     /\ last'.ctx = {[tabId |-> last'.from,
                                      job |-> jobStore[tabIdToContext[last'.from].jobId],
                                      channelId |-> tabIdToContext[last'.from].channelId]}
                ELSE ~last'.ok /\ last'.ctx = {}
             /\ last'.sent = {} /\ last'.bcast = {}
             /\ UNCHANGED <<jobStore, stateStore, jobStateCache, tabIdToContext,
                            jobIdToSourceTabId, nextJob, nextTab>>]_vars
  /\ [][\A tab \in DOMAIN tabIdToContext' :
          \/ tab \in DOMAIN tabIdToContext /\ tabIdToContext'[tab] = tabIdToContext[tab]
          \/ /\ last'.op = "StartJob" /\ tab \in last'.spawned
             /\ tabIdToContext'[tab].jobId = last'.jobId
             /\ reporter'[<<last'.jobId, tabIdToContext'[tab].channelId>>] = tab]_vars

\* a GetContext from the tab of a worker of a stopped job has been answered
\* with the job, which carries stoppedAt, and the channel of the tab
C14_Witness ==
  /\ last.op = "GetContext" /\ last.ok
  /\ \E c \in last.ctx :
       /\ c.job.stoppedAt # 0
       /\ c.tabId = last.from
       /\ c.job.jobId \in startedOk
       /\ jobStateCache[c.job.jobId][c.channelId].tabId = c.tabId

----------------------------------------------------------------------------
\* the step has mutated state of job last'.jobId: a StartJob answered success,
\* a ChannelUpdate for a stored running job, a RequestStop that wrote stoppedAt
Mutation ==
  \/ last'.op = "StartJob" /\ last'.ok
  \/ last'.op = "ChannelUpdate" /\ Running(last'.jobId)
  \/ last'.op = "StopJob" /\ last'.ok /\ Running(last'.jobId)

\* C15: every step that mutates state of a job (StartJob, a ChannelUpdate that
\* is not discarded, a RequestStop that sets stoppedAt) sends one JobBroadcast
\* to the job's source tab, with the jobId, the job's channels and the job's
\* whole current state map.
C15_Broadcast ==
  [][Mutation
       => /\ Cardinality(last'.bcast) = 1
          /\ \A m \in last'.bcast :
               /\ m.jobId = last'.jobId
               /\ m.to = SourceTab
               /\ last'.jobId \in DOMAIN jobStateCache'
               /\ m.state = jobStateCache'[last'.jobId]
               /\ ALL_CHANNELS \subseteq DOMAIN m.state
               /\ last'.jobId \in DOMAIN jobStore'
                    => m.channels = jobStore'[last'.jobId].channels]_vars

----------------------------------------------------------------------------
\* C16: broadcast delivery is best effort.  A StartJob or ChannelUpdate whose
\* JobBroadcast goes to a closed source tab is answered success all the same,
\* and what it merged is in the cache and in the store: the state it broadcast
\* is the cached and the persisted state map, and an update for a running job
\* is merged whether the source tab is open or not.
C16_BestEffort ==
  [][/\ (last'.op \in {"StartJob", "ChannelUpdate"}
           /\ \E m \in last'.bcast : m.to \in closed)
         => /\ last'.ok
            /\ \A m \in last'.bcast :
                 /\ jobStateCache'[last'.jobId] = m.state
                 /\ stateStore'[last'.jobId] = m.state
     /\ (last'.op = "ChannelUpdate" /\ Running(last'.jobId) /\ SourceTab \in closed)
         => /\ last'.ok
            /\ jobStateCache'[last'.jobId][last'.channelId].status
                 \in {p.status : p \in Patches}
            /\ jobStateCache'[last'.jobId][last'.channelId].updatedAt = now
            /\ stateStore'[last'.jobId] = jobStateCache'[last'.jobId]]_vars

\* the source tab of a running job is closed, the broadcast of an update that
\* reported failed was sent to it, and the update is merged and acknowledged
C16_Witness ==
  /\ last.op = "ChannelUpdate" /\ last.ok
  /\ SourceTab \in closed
  /\ last.jobId \in startedOk /\ Running(last.jobId)
  /\ jobIdToSourceTabId[last.jobId] \in closed
  /\ \E m \in last.bcast : m.to \in closed
  /\ jobStateCache[last.jobId][last.channelId].status = "failed"
  /\ stateStore[last.jobId][last.channelId].status = "failed"

----------------------------------------------------------------------------
\* C17: a RequestStop for a running job is answered success and the stored Job
\* has stoppedAt afterwards, whatever tabs are closed; a stop message is sent
\* to the tab of every channel that has one, closed or not.
C17_StopBestEffort ==
  [][(last'.op = "StopJob" /\ Running(last'.jobId))
       => /\ last'.ok
          /\ last'.jobId \in DOMAIN jobStore'
          /\ jobStore'[last'.jobId].stoppedAt # 0
          /\ \A c \in ALL_CHANNELS :
               LET tab == IF HasView(jobStateCache, stateStore, last'.jobId)
                          THEN View(jobStateCache, stateStore, last'.jobId)[c].tabId
                          ELSE 0
               IN  tab # 0 => [tab |-> tab, type |-> "V2_REQUEST_STOP",
                               jobId |-> last'.jobId, channelId |-> c] \in last'.sent]_vars

----------------------------------------------------------------------------
\* C18: a stopped job is terminal.  Once the stored Job has stoppedAt, no entry
\* of its state map changes, in the cache or in the store, whatever handlers
\* were suspended when stoppedAt was written.
C18_Terminal ==
  [][\A j \in DOMAIN jobStore :
       jobStore[j].stoppedAt # 0
         => /\ (j \in DOMAIN jobStateCache /\ j \in DOMAIN jobStateCache')
                 => jobStateCache'[j] = jobStateCache[j]
            /\ (j \in DOMAIN stateStore /\ j \in DOMAIN stateStore')
                 => stateStore'[j] = stateStore[j]]_vars

\* C19: stoppedAt is set once.  The stoppedAt of a stored Job, once written,
\* keeps its value, however the handlers of RequestStop interleave.
C19_StoppedOnce ==
  [][\A j \in DOMAIN jobStore \cap DOMAIN jobStore' :
       jobStore[j].stoppedAt # 0
         => jobStore'[j].stoppedAt = jobStore[j].stoppedAt]_vars

\* C20: no lost update between channels.  When the handlers of two
\* ChannelUpdates for different channels of one running job have both
\* answered success, the persisted state map, and the cached one, has the
\* status of either patch at its channel.
C20_NoLostUpdate ==
  \A h1, h2 \in DOMAIN inflight :
    LET a == inflight[h1]
        b == inflight[h2]
    IN  (/\ a.kind = "update" /\ b.kind = "update"
         /\ a.pc = "done" /\ b.pc = "done" /\ a.ok /\ b.ok
         /\ a.jobId = b.jobId /\ a.channelId # b.channelId
         /\ Running(a.jobId))
          => /\ a.jobId \in DOMAIN stateStore
             /\ stateStore[a.jobId][a.channelId].status = a.patch.status
             /\ stateStore[a.jobId][b.channelId].status = b.patch.status
             /\ a.jobId \in DOMAIN jobStateCache
                  => /\ jobStateCache[a.jobId][a.channelId].status = a.patch.status
                     /\ jobStateCache[a.jobId][b.channelId].status = b.patch.status

----------------------------------------------------------------------------
\* C21: same-channel ordering.  Handlers are numbered in the order of arrival.
\* When the handlers of two ChannelUpdates for the same channel of one running
\* job, with different statuses in their patches, have both answered success,
\* the persisted entry, and the cached one, has the status of the patch that
\* arrived last.
C21_ArrivalOrder ==
  \A h1, h2 \in DOMAIN inflight :
    LET a == inflight[h1]
        b == inflight[h2]
    IN  (/\ h1 < h2
         /\ a.kind = "update" /\ b.kind = "update"
         /\ a.pc = "done" /\ b.pc = "done" /\ a.ok /\ b.ok
         /\ a.seen = "running" /\ b.seen = "running"
         /\ a.jobId = b.jobId /\ a.channelId = b.channelId
         /\ a.patch.status # b.patch.status
         /\ Running(a.jobId))
          => /\ a.jobId \in DOMAIN stateStore
             /\ stateStore[a.jobId][a.channelId].status = b.patch.status
             /\ a.jobId \in DOMAIN jobStateCache
                  => jobStateCache[a.jobId][a.channelId].status = b.patch.status

----------------------------------------------------------------------------
\* C22: a state record never outlives its Job.  In every reachable state a
\* persisted state record exists only for a job id that has a Job record.
C22_NoOrphanState == DOMAIN stateStore \subseteq DOMAIN jobStore

----------------------------------------------------------------------------
\* C23: a stored Job is immutable except for stoppedAt.  A Job that is stored
\* before and after a step keeps its jobId, createdAt, action, article,
\* channels and sourceTabId; a ChannelUpdate, a Retry, a Continue and a
\* GetContext leave the Job records as they were; only a RequestStop changes
\* a stoppedAt.
C23_JobImmutable ==
  [][/\ \A j \in DOMAIN jobStore \cap DOMAIN jobStore' :
          /\ [jobStore'[j] EXCEPT !.stoppedAt = 0] = [jobStore[j] EXCEPT !.stoppedAt = 0]
          /\ last'.op # "StopJob" => jobStore'[j] = jobStore[j]
          /\ (last'.op = "StopJob" /\ j # last'.jobId) => jobStore'[j] = jobStore[j]
     /\ last'.op \in {"ChannelUpdate", "GetContext"} \cup ControlOps
          => jobStore' = jobStore]_vars

\* a RequestStop has written stoppedAt into a Job that is still stored
C23_Witness ==
  /\ last.op = "StopJob" /\ last.ok
  /\ last.jobId \in DOMAIN jobStore
  /\ jobStore[last.jobId].stoppedAt # 0
  /\ jobStore[last.jobId].createdAt # jobStore[last.jobId].stoppedAt

----------------------------------------------------------------------------
\* C24: merge semantics.  A ChannelUpdate for a running job makes the entry of
\* its channel the previous entry with every field of the patch overwritten
\* and every other field kept, except that channelId is the message's
\* channelId, updatedAt is the time of handling and tabId is the sender's tab
\* id, or the previous tabId when the sender has none; the other entries are
\* kept and the whole map is persisted.
C24_Merge ==
  [][(/\ last'.op = "ChannelUpdate"
      /\ Running(last'.jobId)
      /\ HasView(jobStateCache, stateStore, last'.jobId))
       => LET j == last'.jobId
              c == last'.channelId
              p == last'.patch
              before == View(jobStateCache, stateStore, j)
              prev == before[c]
              new == jobStateCache'[j][c]
          IN  /\ DOMAIN new = DOMAIN prev \cup DOMAIN p
              /\ \A f \in DOMAIN new :
                   new[f] = CASE f = "channelId" -> c
                              [] f = "updatedAt" -> now
                              [] f = "tabId" -> IF last'.from # 0 THEN last'.from
                                                ELSE prev.tabId
                              [] f \in DOMAIN p \ {"channelId", "updatedAt", "tabId"} -> p[f]
                              [] OTHER -> prev[f]
              /\ DOMAIN jobStateCache'[j] = DOMAIN before
              /\ \A d \in DOMAIN before \ {c} : jobStateCache'[j][d] = before[d]
              /\ stateStore'[j] = jobStateCache'[j]]_vars

\* a running job's channel has taken the status and the stage of a patch that
\* names a tab id, sent by a sender without tab, and has kept its own tab id
C24_Witness ==
  /\ last.op = "ChannelUpdate"
  /\ Running(last.jobId)
  /\ "tabId" \in DOMAIN last.patch
  /\ last.from = 0
  /\ last.jobId \in DOMAIN jobStateCache
  /\ LET e == jobStateCache[last.jobId][last.channelId]
     IN  /\ e.status = last.patch.status
         /\ e.stage = last.patch.stage
         /\ e.userMessage = ""
         /\ e.tabId \notin {0, last.patch.tabId}

----------------------------------------------------------------------------
\* C25: cache rehydration.  A ChannelUpdate for a stored running job that has
\* no cache entry but a persisted state map merges onto the persisted map:
\* every other channel's entry, in the new cache entry and in the store, is
\* the entry that was persisted.
C25_Rehydrate ==
  [][(/\ last'.op = "ChannelUpdate"
      /\ Running(last'.jobId)
      /\ last'.jobId \notin DOMAIN jobStateCache
      /\ last'.jobId \in DOMAIN stateStore)
       => /\ last'.jobId \in DOMAIN jobStateCache'
          /\ DOMAIN jobStateCache'[last'.jobId] = DOMAIN stateStore[last'.jobId]
          /\ \A d \in DOMAIN stateStore[last'.jobId] \ {last'.channelId} :
               /\ jobStateCache'[last'.jobId][d] = stateStore[last'.jobId][d]
               /\ stateStore'[last'.jobId][d] = stateStore[last'.jobId][d]]_vars

\* the background script was restarted after the StartJob (the job has no
\* source tab entry any more), the update was handled, and the other channel
\* still has the status, the stage and the tab the StartJob gave it
C25_Witness ==
  /\ last.op = "ChannelUpdate"
  /\ Running(last.jobId)
  /\ last.jobId \notin DOMAIN jobIdToSourceTabId
  /\ last.jobId \in DOMAIN jobStateCache
  /\ \E d \in DOMAIN jobStateCache[last.jobId] \ {last.channelId} :
       /\ jobStateCache[last.jobId][d].status = "running"
       /\ jobStateCache[last.jobId][d].stage = "openEntry"
       /\ jobStateCache[last.jobId][d].tabId # 0
       /\ stateStore[last.jobId][d] = jobStateCache[last.jobId][d]

----------------------------------------------------------------------------
\* C26: the cache mirrors the store.  No handler is in flight between two
\* steps of Spec, and in every state every job that has a cache entry and a
\* stored Job has a persisted state map equal to the cached one.
C26_Mirror ==
  \A j \in DOMAIN jobStateCache \cap DOMAIN jobStore :
    j \in DOMAIN stateStore /\ stateStore[j] = jobStateCache[j]

----------------------------------------------------------------------------
\* C27: cooperative cancellation of waits.  Once stopRequested is set, the
\* next poll of every wait a flow of the worker is in ends that wait with the
\* stop error.
C27_WaitsStop ==
  [][\A f \in DOMAIN worker.flows :
       (/\ worker.stopRequested
        /\ worker.flows[f].pc \in Waits
        /\ f \in DOMAIN worker'.flows
        /\ worker'.flows[f] # worker.flows[f])
         => worker'.flows[f].err = "stop"]_vars

\* C28: a stop is never missed.  When a stop message has reached the listener
\* of the worker and stopRequested is not set, no flow of the worker is in a
\* wait of the publish flow or has left the page for the list of posts.
C28_StopNotMissed ==
  (worker.stopSent /\ ~worker.stopRequested)
    => \A f \in DOMAIN worker.flows : worker.flows[f].pc \notin Waits \cup {"left"}

\* C29: one flow at a time.  At most one call of bootstrap() of the worker is
\* in a wait of the publish flow.
C29_OneFlow ==
  Cardinality({f \in DOMAIN worker.flows : worker.flows[f].pc \in Waits}) <= 1

\* C30: once a StartJob response has set currentJobId to the new job, the
\* client holds no state of another job: latestState is null or was taken
\* from a broadcast of that job.
C30_CurrentJobOnly ==
  client.responded # 0 => client.latestOf \in {0, client.responded}

====
